---- MODULE Spec2Model ----
(***************************************************************************)
(* A model of the tim_sort crate (algorithms/sort/tim_sort/src/lib.rs),    *)
(* of heap_on_slice, of the MinHeap of binary_heap and of counting_sort.   *)
(*                                                                         *)
(* An element is a pair <<key, id>>: the comparator looks at the key only, *)
(* the id is the element's index in the input, so that a permutation and   *)
(* the relative order of Equal elements can be stated.  A slice is a       *)
(* function over 0..n-1, as in the source.  Every action is one stretch of *)
(* code in which all comparator calls come before the first write to the   *)
(* slice, so the state before an action is the state the comparator sees.  *)
(***************************************************************************)
EXTENDS Integers, Sequences, FiniteSets, TLC

VARIABLES
    input,            \* the slice as the caller passed it
    cmpMode,          \* which comparator the caller passed
    slice,            \* the caller's slice
    pc,               \* position in the code
    result,           \* value returned by the function under call
    arg,              \* arguments of a function called on its own
    min_run_size,     \* tim_sort_by locals
    runs,
    run_start_pos,
    merge_buffer,
    run_stack,
    run_idx,          \* position of `for cur_run in runs`
    cur_run,
    g_start,          \* get_sorted_run_from_slice: run_start_pos parameter
    g_min,            \*   min_run_size parameter
    is_run_increase,
    run_end_pos,
    cur_pos,          \* binary_insertion_sort_by loop variable
    g_ret,            \*   where get_sorted_run_from_slice returns to
    popped,           \* keep_run_stack_invariant: <<first, second, third>>_from_top
    merge_args,       \* merge_two_run: the runs as passed
    run1,             \*   the runs as trimmed
    run2,
    i,
    j,
    k,
    streak_cnt_1,
    streak_cnt_2,
    min_gallop,
    m_ret,            \*   where merge_two_run returns to
    dropped,          \* elements whose destructor ran during unwinding
    arr,              \* heap_on_slice: the slice the caller passed
    data,             \* binary_heap: MinHeap::data
    right_hand        \* insertion_sort_by: the bitwise copy of slice[i]

vars == <<input, cmpMode, slice, pc, result, arg, min_run_size, runs,
          run_start_pos, merge_buffer, run_stack, run_idx, cur_run, g_start,
          g_min, is_run_increase, run_end_pos, cur_pos, g_ret, popped,
          merge_args, run1, run2, i, j, k, streak_cnt_1, streak_cnt_2,
          min_gallop, m_ret, dropped, arr, data, right_hand>>

callerVars == <<input, cmpMode, arg>>
heapVars == <<arr, data>>
sortVars == <<right_hand>>
timVars == <<min_run_size, runs, run_start_pos, run_idx, cur_run>>
gsrVars == <<g_start, g_min, is_run_increase, run_end_pos, cur_pos, g_ret>>
mergeVars == <<merge_args, run1, run2, i, j, k, streak_cnt_1, streak_cnt_2,
               min_gallop, m_ret>>
timSortVars == <<slice, timVars, merge_buffer, run_stack, gsrVars, popped,
                 mergeVars, dropped>>

----------------------------------------------------------------------------
(* Bounds of the model.                                                    *)

MaxLen == 5          \* short inputs of tim_sort_by: 0..MaxLen elements
MaxKey == 2          \* their keys: 0..MaxKey
TwoRunLen == 66      \* a long input that splits into two runs
MultiRunLen == 140   \* a long input that splits into three or four runs
RunMaxMin == 4       \* get_sorted_run_from_slice alone: min_run_size 1..RunMaxMin
MergeMaxLen == 8     \* merge_two_run alone: the two runs together
MergePad == 1        \*   and 0..MergePad elements before and after them
StackMaxLen == 8     \* the run stack alone: slices of 1..StackMaxLen elements
GallopMaxRun == 12   \* galloping_count alone: runs of 1..GallopMaxRun elements
HeapMaxLen == 6      \* heap_on_slice: slices of 0..HeapMaxLen elements
HeapMaxKey == 2      \*   and their keys: 0..HeapMaxKey
DataMaxLen == 5      \* binary_heap: a MinHeap of 0..DataMaxLen elements
DataMaxKey == 2      \*   and their keys: 0..DataMaxKey
ExtendMaxLen == 2    \*   extend with 0..ExtendMaxLen elements
CountMaxLen == 4     \* counting_sort: slices of 0..CountMaxLen elements
CountMaxKey == 2     \*   and their values: -1..CountMaxKey
MaxN == 1100         \* get_min_run_size alone: n in 0..MaxN
DeepStackLen == 20   \* the run stack alone, five runs: DeepStackLen elements

----------------------------------------------------------------------------
(* Elements, comparators, slices.                                          *)

Key(e) == e[1]
Id(e) == e[2]

Uninit == <<-1, -1>>          \* a slot of the buffer never written

Size(s) == Cardinality(DOMAIN s)

Min(a, b) == IF a < b THEN a ELSE b
Max(a, b) == IF a > b THEN a ELSE b

Ord(a, b) == IF a < b THEN "Less" ELSE IF a = b THEN "Equal" ELSE "Greater"

\* The comparators of the tests: `T::cmp` on the key, and
\* `Reverse(a).cmp(&Reverse(b))`.
compare(a, b) ==
    IF cmpMode = "cmp" THEN Ord(Key(a), Key(b)) ELSE Ord(Key(b), Key(a))

is_le(o) == o # "Greater"
is_lt(o) == o = "Less"
is_gt(o) == o = "Greater"

\* <[T]>::partition_point on slice[lo..hi), with the predicate given as a
\* function of the absolute index: a binary search for the first index at
\* which the predicate is false.
RECURSIVE partition_point(_, _, _)
partition_point(p, lo, hi) ==
    IF lo >= hi THEN lo
    ELSE LET mid == lo + (hi - lo) \div 2
         IN  IF p[mid] THEN partition_point(p, mid + 1, hi)
             ELSE partition_point(p, lo, mid)

\* slice[lo..=hi].rotate_right(1)
rotate_right_dup(s, lo, hi) ==
    [x \in DOMAIN s |-> IF x > lo /\ x <= hi THEN s[x - 1] ELSE s[x]]
rotate_right(s, lo, hi) ==
    [x \in DOMAIN s |->
        IF x = lo THEN s[hi] ELSE IF x > lo /\ x <= hi THEN s[x - 1] ELSE s[x]]

\* slice[lo..hi].reverse()
reverse_none(s, lo, hi) == s
reverse_to_end(s, lo, hi) ==
    [x \in DOMAIN s |-> IF x >= lo THEN s[lo + Size(s) - 1 - x] ELSE s[x]]
reverse(s, lo, hi) ==
    [x \in DOMAIN s |-> IF x >= lo /\ x < hi THEN s[lo + hi - 1 - x] ELSE s[x]]

\* copy_nonoverlapping(src + from, dst + to, cnt)
copy_nonoverlapping(src, from, dst, to, cnt) ==
    [x \in DOMAIN dst |->
        IF x >= to /\ x < to + cnt THEN src[from + (x - to)] ELSE dst[x]]

----------------------------------------------------------------------------
(* get_min_run_size                                                        *)

RECURSIVE halve(_)
halve(m) == IF m > 64 THEN halve(m \div 2) ELSE m

max_run_cnt_floor(n, mrs) == n \div mrs + 1
max_run_cnt(n, mrs) == (n - 1) \div mrs + 1

get_min_run_size(n) ==
    IF n < 64 THEN <<n, 1>>
    ELSE LET mrs == Max(halve(n - 1) + 1, 32)
         IN  <<mrs, max_run_cnt(n, mrs)>>

----------------------------------------------------------------------------
(* galloping_count, update_min_gallop, is_run_stack_ok, is_run_gt          *)

\* The two predicates merge_two_run passes to galloping_count.
pred(pr, x, target) ==
    IF pr = "is_le" THEN is_le(compare(x, target)) ELSE is_lt(compare(x, target))

\* The galloping loop: <<prev_idx, cur_idx>> when it stops.
RECURSIVE gallop_loop(_, _, _, _, _, _, _)
gallop_loop(s, target_idx, start_idx, run_limit, pr, stride, prev_idx) ==
    LET cur_idx == start_idx + stride
    IN  IF cur_idx < run_limit /\ pred(pr, s[cur_idx], s[target_idx])
        THEN gallop_loop(s, target_idx, start_idx, run_limit, pr, stride * 2, cur_idx)
        ELSE <<prev_idx, cur_idx>>

galloping_count_no_search(s, target_idx, start_idx, run_limit, pr) ==
    LET g == gallop_loop(s, target_idx, start_idx, run_limit, pr, 1, start_idx)
    IN  Min(g[2], run_limit) - start_idx
galloping_count(s, target_idx, start_idx, run_limit, pr) ==
    LET g == gallop_loop(s, target_idx, start_idx, run_limit, pr, 1, start_idx)
        prev_idx == g[1]
        cur_idx == Min(g[2], run_limit)
        p == [x \in prev_idx .. cur_idx - 1 |-> pred(pr, s[x], s[target_idx])]
    IN  partition_point(p, prev_idx, cur_idx) - start_idx

update_min_gallop_grow_only(mg, gallop_cnt) == mg + 1
update_min_gallop(mg, gallop_cnt) ==
    IF gallop_cnt = 1 THEN mg + 1 ELSE IF mg > 1 THEN mg - 1 ELSE mg

RunLen(r) == r[2] - r[1]

is_run_stack_ok_two_only(rs) ==
    LET size == Len(rs)
    IN  IF size < 3 THEN TRUE
        ELSE RunLen(rs[size]) < RunLen(rs[size - 1])
is_run_stack_ok_sum_only(rs) ==
    LET size == Len(rs)
    IN  IF size < 3 THEN TRUE
        ELSE RunLen(rs[size]) + RunLen(rs[size - 1]) < RunLen(rs[size - 2])
is_run_stack_ok(rs) ==
    LET size == Len(rs)
    IN  IF size < 3 THEN TRUE
        ELSE LET first == RunLen(rs[size])
                 second == RunLen(rs[size - 1])
                 third == RunLen(rs[size - 2])
             IN  first < second /\ (first + second) < third

is_run_gt(r1, r2) == RunLen(r1) > RunLen(r2)

----------------------------------------------------------------------------
(* get_sorted_run_from_slice and binary_insertion_sort_by                  *)

\* The insertion point of sub[cur] in the sorted prefix sub[0..cur), where
\* sub = slice[start..]; returned as an index of the whole slice.
insertion_pos_front(s, start, cur, is_inc) == start
insertion_pos_strict(s, start, cur, is_inc) ==
    LET tgt == s[start + cur]
        p == [x \in start .. start + cur - 1 |->
                IF is_inc THEN is_lt(compare(s[x], tgt))
                ELSE is_gt(compare(s[x], tgt))]
    IN  partition_point(p, start, start + cur)
insertion_pos(s, start, cur, is_inc) ==
    LET tgt == s[start + cur]
        p == [x \in start .. start + cur - 1 |->
                IF is_inc THEN is_le(compare(s[x], tgt))
                ELSE is_gt(compare(s[x], tgt))]
    IN  partition_point(p, start, start + cur)

\* The `append run` loops: the run end after extending from `e`.
RECURSIVE append_run_one_way(_, _, _)
append_run_one_way(s, e, is_inc) ==
    IF e < Size(s) /\ is_le(compare(s[e - 1], s[e]))
    THEN append_run_one_way(s, e + 1, is_inc)
    ELSE e
RECURSIVE append_run(_, _, _)
append_run(s, e, is_inc) ==
    IF e < Size(s)
       /\ (IF is_inc THEN is_le(compare(s[e - 1], s[e]))
           ELSE is_gt(compare(s[e - 1], s[e])))
    THEN append_run(s, e + 1, is_inc)
    ELSE e

GsrEntry ==
    /\ pc = "gsr_entry"
    /\ IF g_start = Size(slice) - 1
       THEN /\ result' = Size(slice)
            /\ pc' = g_ret
            /\ UNCHANGED <<is_run_increase, run_end_pos, cur_pos>>
       ELSE /\ is_run_increase' = is_le(compare(slice[g_start], slice[g_start + 1]))
            /\ run_end_pos' = Min(g_start + g_min, Size(slice))
            /\ cur_pos' = 1
            /\ pc' = "insertion"
            /\ UNCHANGED result
    /\ UNCHANGED <<callerVars, heapVars, sortVars, slice, timVars, merge_buffer, run_stack, g_start,
                   g_min, g_ret, popped, mergeVars, dropped>>

InsertionStep ==
    /\ pc = "insertion"
    /\ cur_pos < run_end_pos - g_start
    /\ slice' = rotate_right(slice,
                             insertion_pos(slice, g_start, cur_pos, is_run_increase),
                             g_start + cur_pos)
    /\ cur_pos' = cur_pos + 1
    /\ UNCHANGED <<callerVars, heapVars, sortVars, pc, result, timVars, merge_buffer, run_stack,
                   g_start, g_min, is_run_increase, run_end_pos, g_ret, popped,
                   mergeVars, dropped>>

GsrFinish ==
    /\ pc = "insertion"
    /\ cur_pos >= run_end_pos - g_start
    /\ LET e == append_run(slice, run_end_pos, is_run_increase)
       IN  /\ slice' = IF is_run_increase THEN slice ELSE reverse(slice, g_start, e)
           /\ run_end_pos' = e
           /\ result' = e
    /\ pc' = g_ret
    /\ UNCHANGED <<callerVars, heapVars, sortVars, timVars, merge_buffer, run_stack, g_start, g_min,
                   is_run_increase, cur_pos, g_ret, popped, mergeVars, dropped>>

----------------------------------------------------------------------------
(* merge_two_run                                                           *)

\* run1.0 after `find merge area`
trim_run1_start(s, r1, r2) ==
    partition_point([x \in r1[1] .. r1[2] - 1 |-> is_le(compare(s[x], s[r2[1]]))],
                    r1[1], r1[2])

\* run2.1 after `find merge area`
trim_run2_end(s, r1, r2) ==
    partition_point([x \in r2[1] .. r2[2] - 1 |-> is_lt(compare(s[x], s[r1[2] - 1]))],
                    r2[1], r2[2])

\* The test at the head of the merge loop's body: take from run1.
take_run1_strict(s, ii, jj, r2) == jj = r2[2] \/ is_lt(compare(s[ii], s[jj]))
take_run1(s, ii, jj, r2) == jj = r2[2] \/ is_le(compare(s[ii], s[jj]))

MergeTrim ==
    /\ pc = "merge_trim"
    /\ LET r1 == merge_args[1]
           r2 == merge_args[2]
           r1_0 == trim_run1_start(slice, r1, r2)
           r2_1 == trim_run2_end(slice, r1, r2)
       IN  /\ run1' = <<r1_0, r1[2]>>
           /\ run2' = <<r2[1], r2_1>>
           /\ i' = r1_0
           /\ j' = r2[1]
           /\ k' = r1_0
    /\ streak_cnt_1' = 0
    /\ streak_cnt_2' = 0
    /\ min_gallop' = 3
    /\ pc' = "merge_loop"
    /\ UNCHANGED <<callerVars, heapVars, sortVars, slice, result, timVars, merge_buffer, run_stack,
                   gsrVars, popped, merge_args, m_ret, dropped>>

MergeStep ==
    /\ pc = "merge_loop"
    /\ k < run2[2]
    /\ IF take_run1(slice, i, j, run2)
       THEN LET left_over == j = run2[2]
                galloping == ~left_over /\ streak_cnt_1 >= min_gallop
                copy_cnt == IF left_over THEN run1[2] - i
                            ELSE IF galloping
                                 THEN galloping_count(slice, j, i, run1[2], "is_le")
                                 ELSE 1
            IN  /\ min_gallop' = IF galloping
                                 THEN update_min_gallop(min_gallop, copy_cnt)
                                 ELSE min_gallop
                /\ streak_cnt_1' = IF left_over \/ galloping THEN streak_cnt_1
                                   ELSE streak_cnt_1 + 1
                /\ merge_buffer' = copy_nonoverlapping(slice, i, merge_buffer, k, copy_cnt)
                /\ streak_cnt_2' = 0
                /\ i' = i + copy_cnt
                /\ k' = k + copy_cnt
                /\ j' = j
       ELSE LET left_over == i = run1[2]
                galloping == ~left_over /\ streak_cnt_2 >= min_gallop
                copy_cnt == IF left_over THEN run2[2] - j
                            ELSE IF galloping
                                 THEN galloping_count(slice, i, j, run2[2], "is_lt")
                                 ELSE 1
            IN  /\ min_gallop' = IF galloping
                                 THEN update_min_gallop(min_gallop, copy_cnt)
                                 ELSE min_gallop
                /\ streak_cnt_2' = IF left_over \/ galloping THEN streak_cnt_2
                                   ELSE streak_cnt_2 + 1
                /\ merge_buffer' = copy_nonoverlapping(slice, j, merge_buffer, k, copy_cnt)
                /\ streak_cnt_1' = 0
                /\ j' = j + copy_cnt
                /\ k' = k + copy_cnt
                /\ i' = i
    /\ UNCHANGED <<callerVars, heapVars, sortVars, slice, pc, result, timVars, run_stack, gsrVars,
                   popped, merge_args, run1, run2, m_ret, dropped>>

\* The number of elements `update at once` copies back.
copy_back_cnt_short(r1, r2) == r2[2] - r1[1] - 1
copy_back_cnt(r1, r2) == r2[2] - r1[1]

\* `update at once`
MergeCopyBack ==
    /\ pc = "merge_loop"
    /\ k >= run2[2]
    /\ slice' = copy_nonoverlapping(merge_buffer, run1[1], slice, run1[1],
                                    copy_back_cnt(run1, run2))
    /\ pc' = m_ret
    /\ UNCHANGED <<callerVars, heapVars, sortVars, result, timVars, merge_buffer, run_stack, gsrVars,
                   popped, mergeVars, dropped>>

----------------------------------------------------------------------------
(* keep_run_stack_invariant                                                *)

\* `for cur_run in runs`: one more run
PushRun ==
    /\ pc = "push"
    /\ run_idx <= Len(runs)
    /\ run_stack' = Append(run_stack, runs[run_idx])
    /\ pc' = "keep"
    /\ UNCHANGED <<callerVars, heapVars, sortVars, slice, result, timVars, merge_buffer, gsrVars,
                   popped, mergeVars, dropped>>

\* `for cur_run in runs`: no run left
ForLoopEnd ==
    /\ pc = "push"
    /\ run_idx > Len(runs)
    /\ pc' = "collapse"
    /\ UNCHANGED <<callerVars, heapVars, sortVars, slice, result, timVars, merge_buffer, run_stack,
                   gsrVars, popped, mergeVars, dropped>>

\* is_run_stack_ok: keep_run_stack_invariant returns to the `for` loop
KeepReturn ==
    /\ pc = "keep"
    /\ is_run_stack_ok(run_stack)
    /\ run_idx' = run_idx + 1
    /\ pc' = "push"
    /\ UNCHANGED <<callerVars, heapVars, sortVars, slice, result, min_run_size, runs, run_start_pos,
                   cur_run, merge_buffer, run_stack, gsrVars, popped, mergeVars,
                   dropped>>

\* The runs keep_run_stack_invariant merges, given <<first, second, third>>.
keep_merge_pair_always_top(pp) == <<pp[2], pp[1]>>
keep_merge_pair(pp) ==
    IF is_run_gt(pp[3], pp[1]) THEN <<pp[2], pp[1]>> ELSE <<pp[3], pp[2]>>

\* The two entries it pushes back after the merge.
keep_push_back_unmerged(pp) == <<pp[3], pp[1]>>
keep_push_back(pp) ==
    IF is_run_gt(pp[3], pp[1])
    THEN <<pp[3], <<pp[2][1], pp[1][2]>>>>
    ELSE <<<<pp[3][1], pp[2][2]>>, pp[1]>>

KeepMerge ==
    /\ pc = "keep"
    /\ ~is_run_stack_ok(run_stack)
    /\ LET n == Len(run_stack)
           pp == <<run_stack[n], run_stack[n - 1], run_stack[n - 2]>>
       IN  /\ popped' = pp
           /\ run_stack' = SubSeq(run_stack, 1, n - 3)
           /\ merge_args' = keep_merge_pair(pp)
    /\ m_ret' = "keep_ret"
    /\ pc' = "merge_trim"
    /\ UNCHANGED <<callerVars, heapVars, sortVars, slice, result, timVars, merge_buffer, gsrVars,
                   run1, run2, i, j, k, streak_cnt_1, streak_cnt_2, min_gallop,
                   dropped>>

KeepAfterMerge ==
    /\ pc = "keep_ret"
    /\ run_stack' = run_stack \o keep_push_back(popped)
    /\ pc' = "keep"
    /\ UNCHANGED <<callerVars, heapVars, sortVars, slice, result, timVars, merge_buffer, gsrVars,
                   popped, mergeVars, dropped>>

----------------------------------------------------------------------------
(* tim_sort_by                                                             *)

TimStart ==
    /\ pc = "tim_start"
    /\ min_run_size' = get_min_run_size(Size(slice))[1]
    /\ runs' = <<>>
    /\ run_start_pos' = 0
    /\ pc' = "split"
    /\ UNCHANGED <<callerVars, heapVars, sortVars, slice, result, run_idx, cur_run, merge_buffer,
                   run_stack, gsrVars, popped, mergeVars, dropped>>

SplitLoop ==
    /\ pc = "split"
    /\ run_start_pos < Size(slice)
    /\ g_start' = run_start_pos
    /\ g_min' = min_run_size
    /\ g_ret' = "split_ret"
    /\ pc' = "gsr_entry"
    /\ UNCHANGED <<callerVars, heapVars, sortVars, slice, result, timVars, merge_buffer, run_stack,
                   is_run_increase, run_end_pos, cur_pos, popped, mergeVars,
                   dropped>>

SplitPush ==
    /\ pc = "split_ret"
    /\ runs' = Append(runs, <<run_start_pos, result>>)
    /\ run_start_pos' = result
    /\ pc' = "split"
    /\ UNCHANGED <<callerVars, heapVars, sortVars, slice, result, min_run_size, run_idx, cur_run,
                   merge_buffer, run_stack, gsrVars, popped, mergeVars, dropped>>

\* The capacity of the Vec behind runs, `Vec::with_capacity(max_run_cnt)`,
\* once tim_sort_by has created it.  A Vec of capacity 0 owns no memory.
runs_capacity ==
    IF pc = "tim_start" THEN 0 ELSE get_min_run_size(Size(slice))[2]

\* The capacity of the Vec behind merge_buffer: `Vec::with_capacity(size)`.
merge_buffer_capacity_min_one(size) == Max(size, 1)
merge_buffer_capacity(size) == size

\* `no need to merge`, or else the buffer allocation and the run stack
AfterSplit ==
    /\ pc = "split"
    /\ run_start_pos >= Size(slice)
    /\ IF Len(runs) = 1
       THEN /\ pc' = "done"
            /\ UNCHANGED <<merge_buffer, run_stack, run_idx>>
       ELSE /\ merge_buffer' =
                [x \in 0 .. merge_buffer_capacity(Size(slice)) - 1 |-> Uninit]
            /\ run_stack' = <<>>
            /\ run_idx' = 1
            /\ pc' = "push"
    /\ UNCHANGED <<callerVars, heapVars, sortVars, slice, result, min_run_size, runs, run_start_pos,
                   cur_run, gsrVars, popped, mergeVars, dropped>>

\* `merge all run in the stack`: one turn of the loop up to the merge
CollapseMerge ==
    /\ pc = "collapse"
    /\ Len(run_stack) > 1
    /\ LET n == Len(run_stack)
       IN  /\ cur_run' = run_stack[n]
           /\ run_stack' = SubSeq(run_stack, 1, n - 1)
           /\ merge_args' = <<run_stack[n - 1], run_stack[n]>>
    /\ m_ret' = "collapse_ret"
    /\ pc' = "merge_trim"
    /\ UNCHANGED <<callerVars, heapVars, sortVars, slice, result, min_run_size, runs, run_start_pos,
                   run_idx, merge_buffer, gsrVars, popped, run1, run2, i, j, k,
                   streak_cnt_1, streak_cnt_2, min_gallop, dropped>>

CollapseAfterMerge_keep_end ==
    /\ pc = "collapse_ret"
    /\ pc' = "collapse"
    /\ UNCHANGED <<callerVars, heapVars, sortVars, slice, result, timVars, merge_buffer, gsrVars,
                   popped, mergeVars, dropped, run_stack>>
CollapseAfterMerge ==
    /\ pc = "collapse_ret"
    /\ run_stack' = [run_stack EXCEPT ![Len(run_stack)][2] = cur_run[2]]
    /\ pc' = "collapse"
    /\ UNCHANGED <<callerVars, heapVars, sortVars, slice, result, timVars, merge_buffer, gsrVars,
                   popped, mergeVars, dropped>>

TimReturn ==
    /\ pc = "collapse"
    /\ Len(run_stack) <= 1
    /\ pc' = "done"
    /\ UNCHANGED <<callerVars, heapVars, sortVars, slice, result, timVars, merge_buffer, run_stack,
                   gsrVars, popped, mergeVars, dropped>>

----------------------------------------------------------------------------
(* A comparator that panics.                                               *)

\* The length of the Vec behind merge_buffer: `Vec::with_capacity(size)`,
\* written through its raw pointer only, so its len stays 0.
merge_buffer_len_full == Size(merge_buffer)
merge_buffer_len == 0

\* The next stretch of code calls the comparator.
CompareInvoked ==
    \/ pc = "gsr_entry" /\ g_start # Size(slice) - 1
    \/ pc = "insertion" /\ cur_pos < run_end_pos - g_start
    \/ pc = "insertion" /\ cur_pos >= run_end_pos - g_start
                        /\ run_end_pos < Size(slice)
    \/ pc = "merge_trim"
    \/ pc = "merge_loop" /\ k < run2[2] /\ j # run2[2]

\* Unwinding drops the locals of tim_sort_by: the Vec behind merge_buffer
\* drops its first len elements.  The slice stays with the caller.
ComparatorPanic ==
    /\ CompareInvoked
    /\ pc' = "panicked"
    /\ dropped' = [x \in 0 .. merge_buffer_len - 1 |-> merge_buffer[x]]
    /\ UNCHANGED <<callerVars, heapVars, sortVars, slice, result, timVars, merge_buffer, run_stack,
                   gsrVars, popped, mergeVars>>

----------------------------------------------------------------------------
(* tim_sort_by called on a slice.                                          *)

\* The slice whose element at x has key f[x] and id x.
MkSlice(f) == [x \in DOMAIN f |-> <<f[x], x>>]

Comparators == {"cmp", "reverse"}

ShortInputs ==
    UNION {{MkSlice(f) : f \in [0 .. n - 1 -> 0 .. MaxKey]} : n \in 0 .. MaxLen}

\* Long inputs: saw-teeth of period p, rising or falling, each key dv times.
\* With a stride st > 1 the teeth are shuffled.
Periods == {1, 3, 20, 50}
Repeats == {1, 2}
Strides == {1, 7}
SawTooth(n, p, dv, st, up) ==
    MkSlice([x \in 0 .. n - 1 |->
                IF up THEN ((x * st) % p) \div dv
                ELSE (p - 1 - ((x * st) % p)) \div dv])
LongInputs ==
    {SawTooth(n, p, dv, st, up) :
        n \in {TwoRunLen, MultiRunLen}, p \in Periods, dv \in Repeats,
        st \in Strides, up \in BOOLEAN}

\* No heap in use.
HeapIdle == arr = <<>> /\ data = <<>>

\* The state at the call of a function: locals not yet set.  The arguments
\* (arg, g_start, g_min, runs, merge_args, merge_buffer) are the caller's.
AtCall(inp, mode, at) ==
    /\ input = inp
    /\ cmpMode = mode
    /\ slice = inp
    /\ pc = at
    /\ result = 0
    /\ min_run_size = 0
    /\ run_start_pos = 0
    /\ run_stack = <<>>
    /\ run_idx = 1
    /\ cur_run = <<0, 0>>
    /\ is_run_increase = TRUE
    /\ run_end_pos = 0
    /\ cur_pos = 0
    /\ g_ret = "done"
    /\ popped = <<>>
    /\ run1 = <<0, 0>>
    /\ run2 = <<0, 0>>
    /\ i = 0
    /\ j = 0
    /\ k = 0
    /\ streak_cnt_1 = 0
    /\ streak_cnt_2 = 0
    /\ min_gallop = 0
    /\ m_ret = "done"
    /\ dropped = <<>>
    /\ right_hand = <<>>

Init ==
    /\ HeapIdle
    /\ arg = <<>>
    /\ g_start = 0
    /\ g_min = 0
    /\ runs = <<>>
    /\ merge_args = <<>>
    /\ merge_buffer = <<>>
    /\ \E inp \in ShortInputs \cup LongInputs, mode \in Comparators :
          AtCall(inp, mode, "tim_start")

Next ==
    \/ TimStart
    \/ SplitLoop
    \/ GsrEntry
    \/ InsertionStep
    \/ GsrFinish
    \/ SplitPush
    \/ AfterSplit
    \/ PushRun
    \/ ForLoopEnd
    \/ KeepReturn
    \/ KeepMerge
    \/ MergeTrim
    \/ MergeStep
    \/ MergeCopyBack
    \/ KeepAfterMerge
    \/ CollapseMerge
    \/ CollapseAfterMerge
    \/ TimReturn
    \/ ComparatorPanic

Spec == Init /\ [][Next]_vars

----------------------------------------------------------------------------
(* get_sorted_run_from_slice called on its own, as its tests call it.      *)

NonEmptyInputs == {s \in ShortInputs : s # <<>>}

InitRun ==
    /\ HeapIdle
    /\ arg = <<>>
    /\ runs = <<>>
    /\ merge_args = <<>>
    /\ merge_buffer = <<>>
    /\ g_min \in 1 .. RunMaxMin
    /\ \E inp \in NonEmptyInputs, mode \in Comparators :
          /\ AtCall(inp, mode, "gsr_entry")
          /\ g_start \in DOMAIN inp

NextRun ==
    \/ GsrEntry
    \/ InsertionStep
    \/ GsrFinish

SpecRun == InitRun /\ [][NextRun]_vars

----------------------------------------------------------------------------
(* merge_two_run called on its own, as its tests call it.                  *)

\* The key sequences of length n that are sorted for the comparator `mode`.
SortedKeys(n, mode) ==
    {f \in [0 .. n - 1 -> 0 .. MaxKey] :
        \A x \in 0 .. n - 2 : IF mode = "cmp" THEN f[x] <= f[x + 1]
                              ELSE f[x] >= f[x + 1]}

\* pad ++ f1 ++ f2 ++ pad, the padding with key 0
TwoRuns(pad, f1, n1, f2, n2) ==
    MkSlice([x \in 0 .. n1 + n2 + 2 * pad - 1 |->
                IF x < pad \/ x >= pad + n1 + n2 THEN 0
                ELSE IF x < pad + n1 THEN f1[x - pad] ELSE f2[x - pad - n1]])

InitMerge ==
    /\ HeapIdle
    /\ arg = <<>>
    /\ runs = <<>>
    /\ g_start = 0
    /\ g_min = 0
    /\ \E n1 \in 1 .. MergeMaxLen - 1, pad \in 0 .. MergePad, mode \in Comparators :
       \E n2 \in 1 .. MergeMaxLen - n1 :
       \E f1 \in SortedKeys(n1, mode), f2 \in SortedKeys(n2, mode) :
          /\ AtCall(TwoRuns(pad, f1, n1, f2, n2), mode, "merge_trim")
          /\ merge_args = <<<<pad, pad + n1>>, <<pad + n1, pad + n1 + n2>>>>
          /\ merge_buffer = [x \in 0 .. n1 + n2 + 2 * pad - 1 |-> Uninit]

NextMerge ==
    \/ MergeTrim
    \/ MergeStep
    \/ MergeCopyBack

SpecMerge == InitMerge /\ [][NextMerge]_vars

----------------------------------------------------------------------------
(* The run stack on its own: the second half of tim_sort_by, from any list *)
(* of adjacent sorted runs that covers the slice.                          *)

\* The runs cut at the positions of `cuts` (a subset of 1..n-1).
RECURSIVE RunsOfCuts(_, _, _)
RunsOfCuts(n, cuts, from) ==
    LET later == {c \in cuts : c > from}
    IN  IF later = {} THEN <<<<from, n>>>>
        ELSE LET c == CHOOSE c \in later : \A d \in later : c <= d
             IN  <<<<from, c>>>> \o RunsOfCuts(n, cuts, c)

\* The run of rs that holds position x.
RunAt(rs, x) == CHOOSE r \in {rs[q] : q \in DOMAIN rs} : r[1] <= x /\ x < r[2]

\* A slice in which each run of rs is sorted: its first half is of the
\* comparator's lesser key, its second half of the greater.
RunsSlice(n, rs, mode) ==
    MkSlice([x \in 0 .. n - 1 |->
                LET r == RunAt(rs, x)
                    upper == 2 * (x - r[1]) >= RunLen(r)
                IN  IF upper = (mode = "cmp") THEN 1 ELSE 0])

InitStack ==
    /\ HeapIdle
    /\ arg = <<>>
    /\ g_start = 0
    /\ g_min = 0
    /\ merge_args = <<>>
    /\ \E n \in 2 .. StackMaxLen, mode \in Comparators :
       \E cuts \in (SUBSET (1 .. n - 1)) \ {{}} :
          /\ runs = RunsOfCuts(n, cuts, 0)
          /\ AtCall(RunsSlice(n, runs, mode), mode, "push")
          /\ merge_buffer = [x \in 0 .. n - 1 |-> Uninit]

NextStack ==
    \/ PushRun
    \/ ForLoopEnd
    \/ KeepReturn
    \/ KeepMerge
    \/ MergeTrim
    \/ MergeStep
    \/ MergeCopyBack
    \/ KeepAfterMerge
    \/ CollapseMerge
    \/ CollapseAfterMerge
    \/ TimReturn

SpecStack == InitStack /\ [][NextStack]_vars

\* The same from the lists of five runs, which make the stack four deep.
DeepRuns == 5
InitDeepStack ==
    /\ HeapIdle
    /\ arg = <<>>
    /\ g_start = 0
    /\ g_min = 0
    /\ merge_args = <<>>
    /\ \E mode \in Comparators :
       \E cuts \in {c \in SUBSET (1 .. DeepStackLen - 1) :
                       Cardinality(c) = DeepRuns - 1} :
          /\ runs = RunsOfCuts(DeepStackLen, cuts, 0)
          /\ AtCall(RunsSlice(DeepStackLen, runs, mode), mode, "push")
          /\ merge_buffer = [x \in 0 .. DeepStackLen - 1 |-> Uninit]

SpecDeepStack == InitDeepStack /\ [][NextStack]_vars

----------------------------------------------------------------------------
(* get_min_run_size and galloping_count called on their own.               *)

MinRunCall ==
    /\ pc = "min_run_call"
    /\ result' = get_min_run_size(arg)
    /\ pc' = "done"
    /\ UNCHANGED <<callerVars, heapVars, sortVars, slice, timVars, merge_buffer, run_stack, gsrVars,
                   popped, mergeVars, dropped>>

InitMinRun ==
    /\ HeapIdle
    /\ arg \in 0 .. MaxN
    /\ g_start = 0
    /\ g_min = 0
    /\ runs = <<>>
    /\ merge_args = <<>>
    /\ merge_buffer = <<>>
    /\ AtCall(<<>>, "cmp", "min_run_call")

SpecMinRun == InitMinRun /\ [][MinRunCall]_vars

GallopCall ==
    /\ pc = "gallop_call"
    /\ result' = galloping_count(slice, arg.target_idx, arg.start_idx,
                                 arg.run_limit, arg.pred)
    /\ pc' = "done"
    /\ UNCHANGED <<callerVars, heapVars, sortVars, slice, timVars, merge_buffer, run_stack, gsrVars,
                   popped, mergeVars, dropped>>

\* The slice target ++ run ++ target: a sorted run of two keys, m0 of them
\* the comparator's lesser key, and an element of key t on either side.
GallopSlice(m, m0, t, mode) ==
    MkSlice([x \in 0 .. m + 1 |->
                IF x = 0 \/ x = m + 1 THEN t
                ELSE IF (x <= m0) = (mode = "cmp") THEN 0 ELSE 1])

InitGallop ==
    /\ HeapIdle
    /\ g_start = 0
    /\ g_min = 0
    /\ runs = <<>>
    /\ merge_args = <<>>
    /\ merge_buffer = <<>>
    /\ \E m \in 1 .. GallopMaxRun, t \in 0 .. 1, mode \in Comparators :
       \E m0 \in 0 .. m :
          /\ AtCall(GallopSlice(m, m0, t, mode), mode, "gallop_call")
          /\ \E ti \in {0, m + 1}, st \in 1 .. m, pr \in {"is_le", "is_lt"} :
             \E lim \in st + 1 .. m + 1 :
                /\ arg = [target_idx |-> ti, start_idx |-> st,
                          run_limit |-> lim, pred |-> pr]
                /\ pred(pr, slice[st], slice[ti])

SpecGallop == InitGallop /\ [][GallopCall]_vars

----------------------------------------------------------------------------
(* heap_on_slice: heap_implementation.rs, and the wrappers of min_heap.rs  *)
(* and max_heap.rs.  `rev` tells which closure heap_implementation got:    *)
(* the caller's compare (min_heap) or reverse_compare(compare) (max_heap). *)

\* Ordering::reverse
ordering_reverse(o) ==
    IF o = "Less" THEN "Greater" ELSE IF o = "Greater" THEN "Less" ELSE o

heap_compare(rev, a, b) ==
    IF rev THEN ordering_reverse(compare(a, b)) ELSE compare(a, b)

swap(a, p, q) == [a EXCEPT ![p] = a[q], ![q] = a[p]]

\* The sub-slice a[0..len), and a with its first positions taken from sub.
split_init(a, len) == [x \in 0 .. len - 1 |-> a[x]]
write_init(a, sub) == [x \in DOMAIN a |-> IF x \in DOMAIN sub THEN sub[x] ELSE a[x]]

is_heap(a, rev) ==
    \A idx \in 0 .. Size(a) \div 2 - 1 :
        LET left == 2 * idx + 1
            right == 2 * idx + 2
        IN  /\ ~(left < Size(a) /\ is_gt(heap_compare(rev, a[idx], a[left])))
            /\ ~(right < Size(a) /\ is_gt(heap_compare(rev, a[idx], a[right])))

\* single_upward and single_downward return <<arr, idx, moved>>.
single_upward(a, idx, rev) ==
    IF idx = 0 THEN <<a, idx, FALSE>>
    ELSE LET parent == (idx - 1) \div 2
         IN  IF heap_compare(rev, a[idx], a[parent]) = "Less"
             THEN <<swap(a, idx, parent), parent, TRUE>>
             ELSE <<a, idx, FALSE>>

single_downward_left_only(a, idx, rev) ==
    LET left == 2 * idx + 1
    IN  IF left < Size(a) /\ is_lt(heap_compare(rev, a[left], a[idx]))
        THEN <<swap(a, idx, left), left, TRUE>>
        ELSE <<a, idx, FALSE>>
single_downward(a, idx, rev) ==
    LET left == 2 * idx + 1
        right == 2 * idx + 2
        s1 == IF left < Size(a) /\ is_lt(heap_compare(rev, a[left], a[idx]))
              THEN left ELSE idx
        smallest_idx ==
              IF right < Size(a) /\ is_lt(heap_compare(rev, a[right], a[s1]))
              THEN right ELSE s1
    IN  IF smallest_idx = idx THEN <<a, idx, FALSE>>
        ELSE <<swap(a, idx, smallest_idx), smallest_idx, TRUE>>

\* `while single_upward(arr, &mut idx, &mut compare) {}`: the slice after it
RECURSIVE while_single_upward(_, _, _)
while_single_upward(a, idx, rev) ==
    LET r == single_upward(a, idx, rev)
    IN  IF r[3] THEN while_single_upward(r[1], r[2], rev) ELSE a

RECURSIVE while_single_downward(_, _, _)
while_single_downward(a, idx, rev) ==
    LET r == single_downward(a, idx, rev)
    IN  IF r[3] THEN while_single_downward(r[1], r[2], rev) ELSE a

\* move_upward and move_downward return <<arr, moved>>.
move_upward(a, idx, rev) ==
    LET r == single_upward(a, idx, rev)
    IN  IF r[3] THEN <<while_single_upward(r[1], r[2], rev), TRUE>>
        ELSE <<a, FALSE>>

move_downward(a, idx, rev) ==
    LET r == single_downward(a, idx, rev)
    IN  IF r[3] THEN <<while_single_downward(r[1], r[2], rev), TRUE>>
        ELSE <<a, FALSE>>

\* `for idx in (0..len / 2).rev()`, from idx down to 0
RECURSIVE heapify_loop(_, _, _)
heapify_loop(a, idx, rev) ==
    IF idx < 0 THEN a
    ELSE heapify_loop(while_single_downward(a, idx, rev), idx - 1, rev)

heapify(a, rev) ==
    IF Size(a) = 0 THEN a ELSE heapify_loop(a, Size(a) \div 2 - 1, rev)

\* heap_pushpop returns <<arr, x>>.
heap_pushpop_gt(a, x, rev) ==
    IF Size(a) # 0 /\ is_gt(heap_compare(rev, a[0], x))
    THEN <<move_downward([a EXCEPT ![0] = x], 0, rev)[1], a[0]>>
    ELSE <<a, x>>
heap_pushpop(a, x, rev) ==
    IF Size(a) # 0 /\ is_lt(heap_compare(rev, a[0], x))
    THEN <<move_downward([a EXCEPT ![0] = x], 0, rev)[1], a[0]>>
    ELSE <<a, x>>

\* heap_pop returns <<arr, None>> or <<arr, Some(init)>>, init = arr[0..n).
None == <<"None">>
Some(n) == <<"Some", n>>

heap_pop_no_move(a, rev) ==
    IF Size(a) = 0 THEN <<a, None>>
    ELSE <<swap(a, 0, Size(a) - 1), Some(Size(a) - 1)>>
heap_pop(a, rev) ==
    LET len == Size(a)
    IN  IF len = 0 THEN <<a, None>>
        ELSE IF len - 1 = 0 THEN <<a, Some(0)>>
        ELSE LET swapped == swap(a, 0, len - 1)
                 init == split_init(swapped, len - 1)
             IN  <<write_init(swapped, move_downward(init, 0, rev)[1]),
                   Some(len - 1)>>

\* `while let Some(init) = heap_pop(arr, &mut compare) { arr = init; }`,
\* arr being a[0..len)
RECURSIVE while_heap_pop(_, _, _)
while_heap_pop(a, len, rev) ==
    LET r == heap_pop(split_init(a, len), rev)
    IN  IF r[2] = None THEN a
        ELSE while_heap_pop(write_init(a, r[1]), r[2][2], rev)

heap_reverse_sort_no_heapify(a, rev) == while_heap_pop(a, Size(a), rev)
heap_reverse_sort(a, rev) == while_heap_pop(heapify(a, rev), Size(a), rev)

\* adjust_heap returns <<arr, moved>>.
adjust_heap_up_only(a, idx, rev) == move_upward(a, idx, rev)
adjust_heap(a, idx, rev) ==
    LET up == move_upward(a, idx, rev)
    IN  IF up[2] THEN up ELSE move_downward(a, idx, rev)

\* The calls, through min_heap.rs unless max_heap is named.
HeapifyBy ==
    /\ pc = "heap_start"
    /\ input' = arr
    /\ arr' = heapify(arr, FALSE)
    /\ pc' = "heapify_done"
    /\ UNCHANGED <<cmpMode, arg, result, data, timSortVars, sortVars>>

HeapPopBy ==
    /\ pc = "heapify_done"
    /\ input' = arr
    /\ arr' = heap_pop(arr, FALSE)[1]
    /\ result' = heap_pop(arr, FALSE)[2]
    /\ pc' = "heap_pop_done"
    /\ UNCHANGED <<cmpMode, arg, data, timSortVars, sortVars>>

\* x is a new element.
HeapPushpopBy ==
    /\ pc = "heapify_done"
    /\ \E key \in 0 .. HeapMaxKey :
          LET x == <<key, Size(arr)>>
          IN  /\ arg' = x
              /\ arr' = heap_pushpop(arr, x, FALSE)[1]
              /\ result' = heap_pushpop(arr, x, FALSE)[2]
    /\ input' = arr
    /\ pc' = "heap_pushpop_done"
    /\ UNCHANGED <<cmpMode, data, timSortVars, sortVars>>

\* The caller writes another value at idx, `arr[0] = 0` in the tests.
HeapOverwrite ==
    /\ pc = "heapify_done"
    /\ \E idx \in DOMAIN arr, key \in 0 .. HeapMaxKey :
          /\ key # Key(arr[idx])
          /\ arr' = [arr EXCEPT ![idx] = <<key, Size(arr)>>]
          /\ arg' = idx
    /\ pc' = "overwritten"
    /\ UNCHANGED <<input, cmpMode, result, data, timSortVars, sortVars>>

AdjustHeapBy ==
    /\ pc = "overwritten"
    /\ input' = arr
    /\ arr' = adjust_heap(arr, arg, FALSE)[1]
    /\ result' = adjust_heap(arr, arg, FALSE)[2]
    /\ pc' = "adjust_heap_done"
    /\ UNCHANGED <<cmpMode, arg, data, timSortVars, sortVars>>

HeapReverseSortBy ==
    /\ pc = "heap_start"
    /\ input' = arr
    /\ arr' = heap_reverse_sort(arr, FALSE)
    /\ pc' = "heap_reverse_sort_done"
    /\ UNCHANGED <<cmpMode, arg, result, data, timSortVars, sortVars>>

\* max_heap::heapsort_by
HeapsortBy ==
    /\ pc = "heap_start"
    /\ input' = arr
    /\ arr' = heap_reverse_sort(arr, TRUE)
    /\ pc' = "heapsort_done"
    /\ UNCHANGED <<cmpMode, arg, result, data, timSortVars, sortVars>>

HeapInputs ==
    UNION {{MkSlice(f) : f \in [0 .. n - 1 -> 0 .. HeapMaxKey]} :
              n \in 0 .. HeapMaxLen}

\* The state outside tim_sort: its variables as at a call of it on nothing.
TimSortIdle ==
    /\ g_start = 0
    /\ g_min = 0
    /\ runs = <<>>
    /\ merge_args = <<>>
    /\ merge_buffer = <<>>

InitHeap ==
    /\ TimSortIdle
    /\ arg = <<>>
    /\ data = <<>>
    /\ arr \in HeapInputs
    /\ \E mode \in Comparators : AtCall(<<>>, mode, "heap_start")

NextHeap ==
    \/ HeapifyBy
    \/ HeapPopBy
    \/ HeapPushpopBy
    \/ HeapOverwrite
    \/ AdjustHeapBy
    \/ HeapReverseSortBy
    \/ HeapsortBy

SpecHeap == InitHeap /\ [][NextHeap]_vars

----------------------------------------------------------------------------
(* binary_heap: heap_logic.rs and MinHeap of min_heap.rs.  The elements    *)
(* are plain values, <<key, 0>>, as the u32 of the tests.                  *)

\* usize::MAX, what 0usize.wrapping_sub(1) is.  The model takes the largest
\* integer of the checker for it: no Vec is that long.
usize_MAX == 2147483647

get_parent(idx) ==
    IF (idx + 1) \div 2 = 0 THEN usize_MAX ELSE (idx + 1) \div 2 - 1
get_left(idx) == (idx + 1) * 2 - 1
get_right(idx) == (idx + 1) * 2 + 1 - 1

min_heapify_one_level(d, idx) ==
    LET l == get_left(idx)
        r == get_right(idx)
        s1 == IF l < Size(d) /\ compare(d[l], d[idx]) = "Less" THEN l ELSE idx
        s == IF r < Size(d) /\ compare(d[r], d[s1]) = "Less" THEN r ELSE s1
    IN  IF s # idx THEN swap(d, idx, s) ELSE d
RECURSIVE min_heapify(_, _)
min_heapify(d, idx) ==
    LET l == get_left(idx)
        r == get_right(idx)
        s1 == IF l < Size(d) /\ compare(d[l], d[idx]) = "Less" THEN l ELSE idx
        s == IF r < Size(d) /\ compare(d[r], d[s1]) = "Less" THEN r ELSE s1
    IN  IF s # idx THEN min_heapify(swap(d, idx, s), s) ELSE d

\* `for i in (0..offset).rev()`, from idx down to 0
RECURSIVE build_heap_loop(_, _)
build_heap_loop(d, idx) ==
    IF idx < 0 THEN d ELSE build_heap_loop(min_heapify(d, idx), idx - 1)

build_heap(d) == build_heap_loop(d, Size(d) \div 2 - 1)

\* Vec::push, Vec::append, Vec::pop (the Vec after it)
vec_push(d, elem) == [x \in 0 .. Size(d) |-> IF x < Size(d) THEN d[x] ELSE elem]
vec_append(d, elems) ==
    [x \in 0 .. Size(d) + Size(elems) - 1 |->
        IF x < Size(d) THEN d[x] ELSE elems[x - Size(d)]]
vec_pop(d) == [x \in 0 .. Size(d) - 2 |-> d[x]]

\* The `pull up` loop of MinHeap::push
RECURSIVE pull_up(_, _, _)
pull_up(d, cur_idx, parent_idx) ==
    IF /\ parent_idx < Size(d)
       /\ cur_idx < Size(d)
       /\ "Greater" = compare(d[parent_idx], d[cur_idx])
    THEN pull_up(swap(d, parent_idx, cur_idx), parent_idx, get_parent(parent_idx))
    ELSE d

MinHeap_push(d, elem) ==
    LET pushed == vec_push(d, elem)
        cur_idx == Size(pushed) - 1
    IN  pull_up(pushed, cur_idx, get_parent(cur_idx))

\* There is a MinHeap, and no PeekMut borrows it.
NotBorrowed == pc \notin {"no_heap", "peek_mut"}

MinHeapInputs(maxlen) ==
    UNION {{[x \in 0 .. n - 1 |-> <<f[x], 0>>] : f \in [0 .. n - 1 -> 0 .. DataMaxKey]} :
              n \in 0 .. maxlen}

\* The constructors: MinHeap::new and MinHeap::from_vec
New ==
    /\ pc = "no_heap"
    /\ data' = <<>>
    /\ pc' = "new"
    /\ UNCHANGED <<callerVars, result, arr, timSortVars, sortVars>>

FromVec ==
    /\ pc = "no_heap"
    /\ \E source \in MinHeapInputs(DataMaxLen) :
          /\ input' = source
          /\ data' = build_heap(source)
    /\ pc' = "from_vec"
    /\ UNCHANGED <<cmpMode, arg, result, arr, timSortVars, sortVars>>

Push ==
    /\ NotBorrowed
    /\ Size(data) < DataMaxLen
    /\ \E key \in 0 .. DataMaxKey :
          /\ arg' = <<key, 0>>
          /\ data' = MinHeap_push(data, <<key, 0>>)
    /\ input' = data
    /\ pc' = "push"
    /\ UNCHANGED <<cmpMode, result, arr, timSortVars, sortVars>>

Extend ==
    /\ NotBorrowed
    /\ \E elems \in MinHeapInputs(Min(ExtendMaxLen, DataMaxLen - Size(data))) :
          /\ arg' = elems
          /\ data' = build_heap(vec_append(data, elems))
    /\ input' = data
    /\ pc' = "extend"
    /\ UNCHANGED <<cmpMode, result, arr, timSortVars, sortVars>>

Pop ==
    /\ NotBorrowed
    /\ IF Size(data) = 0
       THEN /\ result' = None
            /\ data' = data
       ELSE LET end_idx == Size(data) - 1
                swapped == swap(data, 0, end_idx)
            IN  /\ result' = Some(swapped[end_idx])
                /\ data' = min_heapify(vec_pop(swapped), 0)
    /\ input' = data
    /\ pc' = "pop"
    /\ UNCHANGED <<cmpMode, arg, arr, timSortVars, sortVars>>

Top ==
    /\ NotBorrowed
    /\ result' = IF 0 < Size(data) THEN Some(data[0]) ELSE None
    /\ input' = data
    /\ pc' = "top"
    /\ UNCHANGED <<cmpMode, arg, data, arr, timSortVars, sortVars>>

\* peek_mut, and the caller writes through the PeekMut: `*pm = 44`
PeekMutWrite ==
    /\ NotBorrowed
    /\ Size(data) # 0
    /\ \E key \in 0 .. DataMaxKey :
          /\ arg' = <<key, 0>>
          /\ data' = [data EXCEPT ![0] = <<key, 0>>]
    /\ input' = data
    /\ pc' = "peek_mut"
    /\ UNCHANGED <<cmpMode, result, arr, timSortVars, sortVars>>

\* Drop for PeekMut
PeekMutDrop ==
    /\ pc = "peek_mut"
    /\ data' = min_heapify(data, 0)
    /\ input' = data
    /\ pc' = "peek_mut_drop"
    /\ UNCHANGED <<cmpMode, arg, result, arr, timSortVars, sortVars>>

InitMinHeap ==
    /\ TimSortIdle
    /\ arg = <<>>
    /\ arr = <<>>
    /\ data = <<>>
    /\ \E mode \in Comparators : AtCall(<<>>, mode, "no_heap")

NextMinHeap ==
    \/ New
    \/ FromVec
    \/ Push
    \/ Extend
    \/ Pop
    \/ Top
    \/ PeekMutWrite
    \/ PeekMutDrop

SpecMinHeap == InitMinHeap /\ [][NextMinHeap]_vars

----------------------------------------------------------------------------
(* counting_sort: try_counting_sort and counting_sort_by_key.  An element  *)
(* <<key, id>> is the integer `key` for try_counting_sort.  The panics on  *)
(* a key of usize::MAX or a count beyond it are outside the keys here.     *)

Ok(v) == <<"Ok", v>>
Err == <<"Err">>

\* TryInto<usize> of a signed integer
try_into(item) == IF Key(item) < 0 THEN Err ELSE Ok(Key(item))

\* The key functions given to counting_sort_by_key: one that grows with the
\* element, `|_w| 0`, and one that falls with the element.
KeyFns == {"succ", "zero", "pred"}
key_fn(f, item) ==
    IF f = "succ" THEN Key(item) + 1
    ELSE IF f = "zero" THEN 0
    ELSE CountMaxKey - Key(item)

RECURSIVE power_of_two_from(_, _)
power_of_two_from(p, n) == IF p >= n THEN p ELSE power_of_two_from(2 * p, n)
next_power_of_two(n) == power_of_two_from(1, n)

\* Vec::resize(new_len, 0) of a longer length
resize(counter, new_len) ==
    [x \in 0 .. new_len - 1 |-> IF x \in DOMAIN counter THEN counter[x] ELSE 0]

\* `for item in it`: it yields items[idx], items[idx + 1], ...
RECURSIVE count_loop(_, _, _, _)
count_loop(items, idx, counter, max_key) ==
    IF idx >= Size(items) THEN Ok(<<counter, max_key>>)
    ELSE IF items[idx] = Err THEN Err
    ELSE LET key == items[idx][2]
             sized == IF Size(counter) <= key
                      THEN resize(counter, next_power_of_two(key + 1))
                      ELSE counter
         IN  count_loop(items, idx + 1, [sized EXCEPT ![key] = @ + 1],
                        Max(max_key, key))

\* `for i in 1..=max_key`
RECURSIVE accumulate_loop(_, _, _)
accumulate_loop(counter, idx, max_key) ==
    IF idx > max_key THEN counter
    ELSE accumulate_loop([counter EXCEPT ![idx] = @ + counter[idx - 1]],
                         idx + 1, max_key)

get_accumulated_counter(items) ==
    LET counted == count_loop(items, 0, <<>>, 0)
    IN  IF counted = Err THEN Err
        ELSE Ok(accumulate_loop(counted[2][1], 1, counted[2][2]))

\* `for (idx, item) in it.enumerate().rev()`, from idx down to 0.  Without
\* the rev() the items would be taken front to back.
RECURSIVE permutation_loop_no_rev(_, _, _, _)
permutation_loop_no_rev(counter, items, idx, perm) ==
    IF idx < 0 THEN Ok(perm)
    ELSE LET at == Size(items) - 1 - idx
         IN  IF items[at] = Err THEN Err
             ELSE LET key == items[at][2]
                      dec == [counter EXCEPT ![key] = @ - 1]
                  IN  permutation_loop_no_rev(dec, items, idx - 1,
                                              [perm EXCEPT ![at] = dec[key]])
RECURSIVE permutation_loop(_, _, _, _)
permutation_loop(counter, items, idx, perm) ==
    IF idx < 0 THEN Ok(perm)
    ELSE IF items[idx] = Err THEN Err
    ELSE LET key == items[idx][2]
             dec == [counter EXCEPT ![key] = @ - 1]
         IN  permutation_loop(dec, items, idx - 1,
                              [perm EXCEPT ![idx] = dec[key]])

accumulated_counter2permutation(counter, items, len) ==
    permutation_loop(counter, items, len - 1, [x \in 0 .. len - 1 |-> 0])

apply_permutation_copy(src, perm) ==
    LET cloned_src == src
    IN  [x \in DOMAIN src |->
            cloned_src[CHOOSE idx \in DOMAIN src : perm[idx] = x]]

\* `for i in 0..src.len() { while perm[i] != i { .. } }`: <<src, perm>> at
\* the end
RECURSIVE apply_permutation_loop(_, _, _)
apply_permutation_loop(src, perm, idx) ==
    IF idx >= Size(src) THEN <<src, perm>>
    ELSE IF perm[idx] # idx
    THEN apply_permutation_loop(swap(src, idx, perm[idx]),
                                swap(perm, idx, perm[idx]), idx)
    ELSE apply_permutation_loop(src, perm, idx + 1)

apply_permutation(src, perm) == apply_permutation_loop(src, perm, 0)[1]

\* try_counting_sort returns <<slice, Ok(()) or Err>>.
Unit == <<>>

try_counting_sort(s) ==
    IF Size(s) <= 1 THEN <<s, Ok(Unit)>>
    ELSE LET it == [x \in DOMAIN s |-> try_into(s[x])]
             counter == get_accumulated_counter(it)
         IN  IF counter = Err THEN <<s, Err>>
             ELSE LET perm == accumulated_counter2permutation(counter[2], it, Size(s))
                  IN  IF perm = Err THEN <<s, Err>>
                      ELSE <<apply_permutation_copy(s, perm[2]), Ok(Unit)>>

counting_sort_by_key(s, f) ==
    IF Size(s) <= 1 THEN s
    ELSE LET it == [x \in DOMAIN s |-> Ok(key_fn(f, s[x]))]
             counter == get_accumulated_counter(it)[2]
             perm == accumulated_counter2permutation(counter, it, Size(s))[2]
         IN  apply_permutation(s, perm)

TryCountingSort ==
    /\ pc = "counting_start"
    /\ slice' = try_counting_sort(slice)[1]
    /\ result' = try_counting_sort(slice)[2]
    /\ pc' = "try_counting_sort_done"
    /\ UNCHANGED <<callerVars, heapVars, sortVars, timVars, merge_buffer, run_stack,
                   gsrVars, popped, mergeVars, dropped>>

CountingSortByKey ==
    /\ pc = "counting_start"
    /\ \E f \in KeyFns :
          /\ arg' = f
          /\ slice' = counting_sort_by_key(slice, f)
    /\ pc' = "counting_sort_by_key_done"
    /\ UNCHANGED <<input, cmpMode, heapVars, sortVars, result, timVars, merge_buffer,
                   run_stack, gsrVars, popped, mergeVars, dropped>>

CountInputs ==
    UNION {{MkSlice(f) : f \in [0 .. n - 1 -> -1 .. CountMaxKey]} :
              n \in 0 .. CountMaxLen}

InitCount ==
    /\ HeapIdle
    /\ TimSortIdle
    /\ arg = <<>>
    /\ \E inp \in CountInputs : AtCall(inp, "cmp", "counting_start")

NextCount ==
    \/ TryCountingSort
    \/ CountingSortByKey

SpecCount == InitCount /\ [][NextCount]_vars

----------------------------------------------------------------------------
(* insertion_sort: insertion_sort and insertion_sort_by.                   *)

\* ptr::copy(src + from, src + to, cnt): the ranges may overlap
copy(s, from, to, cnt) ==
    [x \in DOMAIN s |->
        IF x >= to /\ x < to + cnt THEN s[from + (x - to)] ELSE s[x]]

\* ptr::write(dst + at, v): the old content of the slot is not dropped
write(s, at, v) == [s EXCEPT ![at] = v]

\* What insertion_sort_by leaves alone.
insertionFrame == <<callerVars, heapVars, result, timVars, merge_buffer,
                    run_stack, gsrVars, popped, merge_args, run1, run2, k,
                    streak_cnt_1, streak_cnt_2, min_gallop, m_ret>>

\* `if slice.is_empty() { return; }`, then the for loop starts at 1.
InsertionSortEntry ==
    /\ pc = "insertion_sort_call"
    /\ IF Size(slice) = 0
       THEN pc' = "done" /\ UNCHANGED i
       ELSE pc' = "for_i" /\ i' = 1
    /\ UNCHANGED <<insertionFrame, slice, j, dropped, right_hand>>

\* `for i in 1..len`: `right_hand = begin.add(i).read()` copies slice[i]
\* bit by bit; the slot keeps its content.
ReadRightHand ==
    /\ pc = "for_i"
    /\ IF i < Size(slice)
       THEN /\ right_hand' = slice[i]
            /\ j' = i
            /\ pc' = "while_j"
       ELSE /\ pc' = "done"
            /\ UNCHANGED <<right_hand, j>>
    /\ UNCHANGED <<insertionFrame, slice, i, dropped>>

\* `while j > 0 && Greater == cmp(&slice[j - 1], &right_hand) { j -= 1 }`
WhileStep ==
    /\ pc = "while_j"
    /\ IF j > 0 /\ compare(slice[j - 1], right_hand) = "Greater"
       THEN j' = j - 1 /\ UNCHANGED pc
       ELSE pc' = "place" /\ UNCHANGED j
    /\ UNCHANGED <<insertionFrame, slice, i, dropped, right_hand>>

\* The comparator panics: unwinding drops the local right_hand.
WhilePanic ==
    /\ pc = "while_j"
    /\ j > 0
    /\ pc' = "panicked"
    /\ dropped' = Append(dropped, right_hand)
    /\ right_hand' = <<>>
    /\ UNCHANGED <<insertionFrame, slice, i, j>>

\* `if j != i { copy(..); write(begin.add(j), right_hand) }` moves
\* right_hand into the slice; otherwise right_hand is still owned by the
\* block when it ends, and is dropped there.
Place ==
    /\ pc = "place"
    /\ IF j # i
       THEN /\ slice' = write(copy(slice, j, j + 1, i - j), j, right_hand)
            /\ UNCHANGED dropped
       ELSE /\ dropped' = Append(dropped, right_hand)
            /\ UNCHANGED slice
    /\ right_hand' = <<>>
    /\ i' = i + 1
    /\ pc' = "for_i"
    /\ UNCHANGED <<insertionFrame, j>>

InitInsertion ==
    /\ HeapIdle
    /\ TimSortIdle
    /\ arg = <<>>
    /\ \E inp \in ShortInputs, mode \in Comparators :
          AtCall(inp, mode, "insertion_sort_call")

NextInsertion ==
    \/ InsertionSortEntry
    \/ ReadRightHand
    \/ WhileStep
    \/ WhilePanic
    \/ Place

SpecInsertion == InitInsertion /\ [][NextInsertion]_vars

----------------------------------------------------------------------------
(* merge_sort: merge_sort and merge_sort_by.                               *)

\* `for i in begin..end`: the next value is slice[l] if the right segment is
\* used up, or the left one is not and slice[l] compares Less than slice[r];
\* slice[r] otherwise.  buf is the memory behind merge_buffer.
RECURSIVE merge_for(_, _, _, _, _, _, _)
merge_for(s, buf, l, r, mid, end, at) ==
    IF at >= end THEN buf
    ELSE IF r = end \/ (l # mid /\ compare(s[l], s[r]) = "Less")
         THEN merge_for(s, write(buf, at, s[l]), l + 1, r, mid, end, at + 1)
         ELSE merge_for(s, write(buf, at, s[r]), l, r + 1, mid, end, at + 1)

\* `loop { .. }`: merges the segments pair by pair; <<buf, merge_start_pos>>
\* at the break.
RECURSIVE merge_segments(_, _, _, _)
merge_segments(s, buf, seg_size, merge_start_pos) ==
    LET begin == merge_start_pos
        mid == begin + seg_size
        end == Min(mid + seg_size, Size(s))
    IN  IF mid >= Size(s) THEN <<buf, merge_start_pos>>
        ELSE merge_segments(s, merge_for(s, buf, begin, mid, mid, end, begin),
                            seg_size, merge_start_pos + 2 * seg_size)

\* `while seg_size < len`: a pass, the write back, seg_size doubled.
RECURSIVE merge_passes(_, _, _)
merge_passes(s, buf, seg_size) ==
    IF seg_size >= Size(s) THEN s
    ELSE LET pass == merge_segments(s, buf, seg_size, 0)
         IN  merge_passes(
                 copy_nonoverlapping(pass[1], 0, s, 0, Min(pass[2], Size(s))),
                 pass[1], 2 * seg_size)

merge_sort_by(s) ==
    IF Size(s) <= 1 THEN s
    ELSE merge_passes(s, [x \in 0 .. Size(s) - 1 |-> Uninit], 1)

MergeSortBy ==
    /\ pc = "merge_sort_call"
    /\ slice' = merge_sort_by(slice)
    /\ pc' = "merge_sort_done"
    /\ UNCHANGED <<insertionFrame, i, j, dropped, right_hand>>

InitMergeSort ==
    /\ HeapIdle
    /\ TimSortIdle
    /\ arg = <<>>
    /\ \E inp \in ShortInputs, mode \in Comparators :
          AtCall(inp, mode, "merge_sort_call")

NextMergeSort == MergeSortBy

SpecMergeSort == InitMergeSort /\ [][NextMergeSort]_vars

----------------------------------------------------------------------------
(* quick_sort: ternary_partition and ternary_partition_by.                 *)

is_ge(o) == o # "Less"

\* `while j <= k`: <<slice, i, j>> when the loop ends.
RECURSIVE ternary_loop(_, _, _, _, _)
ternary_loop(s, pi, pj, pk, end) ==
    IF pj > pk THEN <<s, pi, pj>>
    ELSE IF is_le(compare(s[pj], s[0]))
         THEN ternary_loop(swap(s, pi, pj), pi + 1, pj + 1, pk, end)
         ELSE IF is_ge(compare(s[pj], s[end]))
              THEN ternary_loop(swap(s, pj, pk), pi, pj, pk - 1, end)
              ELSE ternary_loop(s, pi, pj + 1, pk, end)

\* ternary_partition_by without its last swap: the second pivot stays at end
ternary_partition_by_no_last_swap(s) ==
    LET end == Size(s) - 1
        ordered == IF is_gt(compare(s[0], s[end])) THEN swap(s, 0, end) ELSE s
        looped == ternary_loop(ordered, 1, 1, end - 1, end)
    IN  <<swap(looped[1], 0, looped[2] - 1), looped[2], looped[3]>>
\* The slice and the pair returned, on a slice of two elements or more.
ternary_partition_by(s) ==
    LET end == Size(s) - 1
        ordered == IF is_gt(compare(s[0], s[end])) THEN swap(s, 0, end) ELSE s
        looped == ternary_loop(ordered, 1, 1, end - 1, end)
        i_ret == looped[2]
        j_ret == looped[3]
    IN  <<swap(swap(looped[1], 0, i_ret - 1), j_ret, end), i_ret, j_ret>>

TernaryPartitionBy ==
    /\ pc = "partition_call"
    /\ slice' = ternary_partition_by(slice)[1]
    /\ result' = <<ternary_partition_by(slice)[2], ternary_partition_by(slice)[3]>>
    /\ pc' = "partition_done"
    /\ UNCHANGED <<callerVars, heapVars, sortVars, timVars, merge_buffer,
                   run_stack, gsrVars, popped, mergeVars, dropped>>

\* Callers pass two elements or more: ternary_quick_by returns before the
\* call on a shorter slice, intro_recurse_sort_by below 16 elements.
PartitionInputs == {s \in ShortInputs : Size(s) >= 2}

InitPartition ==
    /\ HeapIdle
    /\ TimSortIdle
    /\ arg = <<>>
    /\ \E inp \in PartitionInputs, mode \in Comparators :
          AtCall(inp, mode, "partition_call")

NextPartition == TernaryPartitionBy

SpecPartition == InitPartition /\ [][NextPartition]_vars

----------------------------------------------------------------------------
(* What the claims speak of.                                               *)

\* slice[lo..hi) is non-decreasing per the comparator.
Sorted(s, lo, hi) ==
    \A x \in lo .. hi - 2 : compare(s[x], s[x + 1]) # "Greater"

\* s holds every element of inp exactly once (the ids make elements distinct).
IsPermutation(s, inp) ==
    /\ DOMAIN s = DOMAIN inp
    /\ {s[x] : x \in DOMAIN s} = {inp[x] : x \in DOMAIN inp}

\* Elements of s[lo..hi) that compare Equal are in the order of their ids.
Stable(s, lo, hi) ==
    \A x \in lo .. hi - 1 : \A y \in x + 1 .. hi - 1 :
        compare(s[x], s[y]) = "Equal" => Id(s[x]) < Id(s[y])

MultiRunPath == Len(runs) > 1

\* C1: after tim_sort_by returns, no adjacent pair of the slice compares
\* Greater, on the single-run path and on the multi-run path.
C1_SortedOnReturn ==
    pc = "done" => Sorted(slice, 0, Size(slice))

C1_Witness ==
    /\ pc = "done"
    /\ MultiRunPath
    /\ ~Sorted(input, 0, Size(input))
    /\ Sorted(slice, 0, Size(slice))

\* C2: tim_sort_by is stable: of two elements that compare Equal, the one
\* that was first in the input is first in the output.
C2_StableOnReturn ==
    pc = "done" => Stable(slice, 0, Size(slice))

C2_Witness ==
    /\ pc = "done"
    /\ MultiRunPath
    /\ slice # input
    /\ \E x \in DOMAIN slice : \E y \in DOMAIN slice :
          /\ x < y
          /\ compare(slice[x], slice[y]) = "Equal"
          /\ Id(slice[x]) < runs[1][2]
          /\ Id(slice[y]) >= runs[1][2]

\* C3: after tim_sort_by returns, the slice holds the elements of the input,
\* each exactly once.
C3_PermutationOnReturn ==
    pc = "done" => IsPermutation(slice, input)

C3_Witness ==
    /\ pc = "done"
    /\ MultiRunPath
    /\ slice # input
    /\ IsPermutation(slice, input)

\* C4: wherever the comparator is invoked, and after a panic of it has
\* unwound, the slice holds every input element exactly once and no element
\* has been dropped.
C4_PanicSafe ==
    (CompareInvoked \/ pc = "panicked")
        => IsPermutation(slice, input) /\ dropped = <<>>

C4_Witness ==
    /\ pc = "panicked"
    /\ k > run1[1]
    /\ k < run2[2]
    /\ slice # input
    /\ IsPermutation(slice, input)

\* C5: merge_two_run on two adjacent non-empty sorted runs [a,b), [b,c)
\* leaves slice[a..c) sorted, a permutation of what it held, and an element
\* of run1 before every element of run2 that compares Equal to it.
C5_StableMerge ==
    pc = "done" =>
        LET a == merge_args[1][1]
            c == merge_args[2][2]
        IN  /\ Sorted(slice, a, c)
            /\ {slice[x] : x \in a .. c - 1} = {input[x] : x \in a .. c - 1}
            /\ Stable(slice, a, c)

C5_Witness ==
    /\ pc = "done"
    /\ slice # input
    /\ merge_args[1][1] > 0
    /\ \E x \in merge_args[1][1] .. merge_args[2][2] - 1 :
       \E y \in x + 1 .. merge_args[2][2] - 1 :
          /\ compare(slice[x], slice[y]) = "Equal"
          /\ Id(slice[x]) < merge_args[1][2]
          /\ Id(slice[y]) >= merge_args[2][1]

\* C6: get_sorted_run_from_slice returns run_end_pos with
\* slice[run_start_pos..run_end_pos) sorted ascending, whichever orientation
\* was detected, and run_end_pos >= min(run_start_pos + min_run_size, n).
C6_SortedRun ==
    pc = "done" =>
        /\ Sorted(slice, g_start, result)
        /\ result >= Min(g_start + g_min, Size(slice))

C6_Witness ==
    /\ pc = "done"
    /\ ~is_run_increase
    /\ result > g_start + g_min
    /\ result < Size(slice)
    /\ Sorted(slice, g_start, result)

\* The two size conditions on the top three runs of a stack.
TopThreeOk(rs) ==
    Len(rs) >= 3 =>
        LET A == RunLen(rs[Len(rs)])
            B == RunLen(rs[Len(rs) - 1])
            C == RunLen(rs[Len(rs) - 2])
        IN  A < B /\ A + B < C

\* keep_run_stack_invariant has just returned to the `for` loop.
KeepReturned == pc = "push" /\ run_idx > 1

\* C7: whenever keep_run_stack_invariant returns, the top three runs A, B, C
\* of a stack of three or more satisfy |A| < |B| and |A| + |B| < |C|.
C7_TopThreeOnReturn ==
    KeepReturned => TopThreeOk(run_stack)

C7_Witness ==
    /\ KeepReturned
    /\ Len(run_stack) >= 3
    /\ Len(run_stack) < run_idx - 1
    /\ TopThreeOk(run_stack)

\* The least c with c * m >= n.
CeilDiv(n, m) == CHOOSE c \in 0 .. n : c * m >= n /\ (c - 1) * m < n

\* C8: get_min_run_size(n) is (n, 1) for n < 64 and has
\* max_run_count = ceil(n / min_run_size) for n >= 64; (34, 32) for n = 1088.
C8_MinRunCount ==
    pc = "done" =>
        /\ arg < 64 => result = <<arg, 1>>
        /\ arg >= 64 => result[2] = CeilDiv(arg, result[1])
        /\ arg = 1088 => result = <<34, 32>>

C8_Witness ==
    /\ pc = "done"
    /\ arg = 1088
    /\ result = <<34, 32>>

\* C9: for every n >= 64 the min_run_size of get_min_run_size(n) lies in
\* 32..64.
C9_MinRunRange ==
    (pc = "done" /\ arg >= 64) => (32 <= result[1] /\ result[1] <= 64)

\* The count a linear scan gives: the elements from start_idx on, before
\* run_limit, that satisfy the predicate against the target.
LinearCount(s, target_idx, start_idx, run_limit, pr) ==
    CHOOSE c \in 0 .. run_limit - start_idx :
        /\ \A x \in start_idx .. start_idx + c - 1 : pred(pr, s[x], s[target_idx])
        /\ \/ start_idx + c = run_limit
           \/ ~pred(pr, s[start_idx + c], s[target_idx])

\* C10: on a sorted run whose first element satisfies the predicate,
\* galloping_count returns the count of a linear scan, at least 1 and at most
\* run_limit - start_idx.
C10_GallopCount ==
    pc = "done" =>
        /\ result = LinearCount(slice, arg.target_idx, arg.start_idx,
                                arg.run_limit, arg.pred)
        /\ result >= 1
        /\ result <= arg.run_limit - arg.start_idx

C10_Witness ==
    /\ pc = "done"
    /\ arg.pred = "is_le"
    /\ arg.start_idx = 1
    /\ arg.run_limit = 13
    /\ result = 8

\* C11: tim_sort_by on a slice that is already sorted per the comparator,
\* Equal elements included, returns it with the same element at every index.
C11_SortedInputUnchanged ==
    pc = "done" /\ Sorted(input, 0, Size(input)) => slice = input

C11_Witness ==
    /\ pc = "done"
    /\ Size(input) >= 3
    /\ Sorted(input, 0, Size(input))
    /\ \E x \in DOMAIN input : \E y \in DOMAIN input :
          x # y /\ compare(input[x], input[y]) = "Equal"
    /\ \E x \in DOMAIN input : \E y \in DOMAIN input :
          compare(input[x], input[y]) = "Less"
    /\ slice = input

\* Memory obtained from the allocator by tim_sort_by so far.
Allocated == runs_capacity > 0 \/ Size(merge_buffer) > 0

\* C12 as stated: for n = 0 tim_sort_by makes no run and allocates no merge
\* buffer, for n = 1 it returns without any allocation, and in both cases the
\* comparator is never called and the slice is unchanged.
C12_NoAllocation ==
    Size(input) <= 1 =>
        /\ ~CompareInvoked
        /\ slice = input
        /\ pc = "done" /\ Size(input) = 0 => runs = <<>> /\ Size(merge_buffer) = 0
        /\ pc = "done" /\ Size(input) = 1 => ~Allocated

\* C12 as amended: for n = 0 and n = 1 tim_sort_by never calls the
\* comparator, never writes the slice and allocates no merge buffer; n = 0
\* makes no run, n = 1 makes the run [0, 1); what it does allocate, in both
\* cases, is the run list, with capacity 1.
C12_NoMergeBuffer ==
    Size(input) <= 1 =>
        /\ ~CompareInvoked
        /\ slice = input
        /\ Size(merge_buffer) = 0
        /\ pc # "tim_start" => runs_capacity = 1
        /\ pc = "done" => runs = IF Size(input) = 0 THEN <<>> ELSE << <<0, 1>> >>

C12_Witness ==
    /\ pc = "done"
    /\ Size(input) = 1
    /\ runs = << <<0, 1>> >>
    /\ runs_capacity = 1
    /\ Size(merge_buffer) = 0
    /\ slice = input

\* The elements a slice holds.
Contents(s) == {s[x] : x \in DOMAIN s}

\* e is a minimum of the set S under the comparator.
IsMinimum(e, S) == \A f \in S : compare(e, f) # "Greater"

\* C13: heapify_by turns any slice into a valid heap holding the same
\* elements: no parent compares Greater than a child of it.
C13_HeapifyMakesHeap ==
    pc = "heapify_done" =>
        /\ is_heap(arr, FALSE)
        /\ IsPermutation(arr, input)
        /\ \A c \in 1 .. Size(arr) - 1 :
              compare(arr[(c - 1) \div 2], arr[c]) # "Greater"

C13_Witness ==
    /\ pc = "heapify_done"
    /\ Size(input) = HeapMaxLen
    /\ \A x \in 0 .. Size(input) - 2 : compare(input[x], input[x + 1]) # "Less"
    /\ compare(input[0], input[Size(input) - 1]) = "Greater"
    /\ arr # input
    /\ is_heap(arr, FALSE)

\* C14: heap_pop_by returns None on an empty slice; on a valid heap of len
\* elements it returns the first len - 1 positions, which are a valid heap
\* again, and the former root, a minimum, is at position len - 1.
C14_HeapPop ==
    pc = "heap_pop_done" /\ is_heap(input, FALSE) =>
        IF Size(input) = 0
        THEN result = None /\ arr = input
        ELSE /\ result = Some(Size(input) - 1)
             /\ is_heap(split_init(arr, Size(input) - 1), FALSE)
             /\ arr[Size(input) - 1] = input[0]
             /\ IsMinimum(input[0], Contents(input))
             /\ IsPermutation(arr, input)

C14_Witness ==
    /\ pc = "heap_pop_done"
    /\ Size(input) = HeapMaxLen
    /\ is_heap(input, FALSE)
    /\ result = Some(HeapMaxLen - 1)
    /\ arr[HeapMaxLen - 1] = input[0]
    /\ arr[0] = input[2]
    /\ \E x \in DOMAIN input : compare(input[0], input[x]) = "Less"

C16_AdjustHeap ==
    pc = "adjust_heap_done" =>
        /\ is_heap(arr, FALSE)
        /\ IsPermutation(arr, input)
        /\ result <=> arr # input

C16_Witness ==
    /\ pc = "adjust_heap_done"
    /\ ~is_heap(input, FALSE)
    /\ arg = 1
    /\ result
    /\ arr[0] = input[1]
    /\ is_heap(arr, FALSE)

\* C17: min_heap::heap_reverse_sort_by leaves the slice a permutation of
\* the input with no adjacent pair comparing Less (descending), and
\* max_heap::heapsort_by one with no adjacent pair comparing Greater.
C17_HeapSorts ==
    /\ pc = "heap_reverse_sort_done" =>
          /\ IsPermutation(arr, input)
          /\ \A p \in 0 .. Size(arr) - 2 : compare(arr[p], arr[p + 1]) # "Less"
    /\ pc = "heapsort_done" =>
          /\ IsPermutation(arr, input)
          /\ Sorted(arr, 0, Size(arr))

C17_Witness ==
    /\ pc = "heapsort_done"
    /\ Size(input) = HeapMaxLen
    /\ ~Sorted(input, 0, Size(input))
    /\ Sorted(arr, 0, Size(arr))
    /\ compare(arr[0], arr[Size(arr) - 1]) = "Less"

\* No parent of the vector compares Greater than a child of it.
MinHeapProperty(d) ==
    \A c \in 1 .. Size(d) - 1 : compare(d[get_parent(c)], d[c]) # "Greater"

\* How many elements of d have the key.
CountKey(d, key) == Cardinality({x \in DOMAIN d : Key(d[x]) = key})

\* C18: whenever no PeekMut is alive, after any sequence of from_vec, push,
\* extend, pop and peek_mut with a write, the vector of the MinHeap has the
\* min-heap property; top and pop yield a minimum of the stored elements,
\* pop takes exactly that element out, and on an empty heap pop returns
\* None and changes nothing.
C18_MinHeap ==
    /\ NotBorrowed => MinHeapProperty(data)
    /\ pc = "top" =>
          IF Size(data) = 0 THEN result = None
          ELSE result[1] = "Some" /\ IsMinimum(result[2], Contents(data))
    /\ pc = "pop" =>
          IF Size(input) = 0 THEN result = None /\ data = input
          ELSE /\ result[1] = "Some"
               /\ IsMinimum(result[2], Contents(input))
               /\ Size(data) = Size(input) - 1
               /\ \A key \in 0 .. DataMaxKey :
                     CountKey(input, key) =
                        CountKey(data, key) + IF Key(result[2]) = key THEN 1 ELSE 0

C18_Witness ==
    /\ pc = "peek_mut_drop"
    /\ Size(data) = DataMaxLen
    /\ ~MinHeapProperty(input)
    /\ data[0] # input[0]
    /\ data[1] # input[1]
    /\ MinHeapProperty(data)

\* C19: try_counting_sort on a slice with an element that does not convert
\* to usize returns Err and leaves the slice as it was.
C19_ErrOnFailedConversion ==
    pc = "try_counting_sort_done"
    /\ (\E x \in DOMAIN input : try_into(input[x]) = Err)
        => result = Err /\ slice = input

\* C20: counting_sort_by_key leaves the slice a permutation of the input
\* with the keys non-decreasing, elements of one key in their input order.
C20_StableByKey ==
    pc = "counting_sort_by_key_done" =>
        /\ IsPermutation(slice, input)
        /\ \A x \in DOMAIN slice : \A y \in DOMAIN slice :
              x < y =>
                 \/ key_fn(arg, slice[x]) < key_fn(arg, slice[y])
                 \/ /\ key_fn(arg, slice[x]) = key_fn(arg, slice[y])
                    /\ Id(slice[x]) < Id(slice[y])

C20_Witness ==
    /\ pc = "counting_sort_by_key_done"
    /\ arg = "pred"
    /\ Size(slice) = CountMaxLen
    /\ slice # input
    /\ key_fn(arg, slice[0]) = key_fn(arg, slice[1])
    /\ key_fn(arg, slice[1]) < key_fn(arg, slice[2])
    /\ Id(slice[2]) < Id(slice[1])

\* C21: on every way out of insertion_sort_by, by return or by a panic of
\* the comparator, each input element is in exactly one slot of the slice
\* and no bitwise copy of an element has been dropped.
C21_OwnedOnce ==
    pc \in {"done", "panicked"}
        => IsPermutation(slice, input) /\ dropped = <<>>

\* C22: merge_sort_by leaves the slice non-decreasing for the comparator,
\* with elements that compare Equal in their input order.
C22_StableMergeSort ==
    pc = "merge_sort_done"
        => /\ Sorted(slice, 0, Size(slice))
           /\ Stable(slice, 0, Size(slice))

\* C23: ternary_partition_by on two elements or more returns (i, j) with
\* 1 <= i <= j <= len - 1 and leaves a permutation of the input in which
\* slice[i-1] <= slice[j], nothing in slice[0..i-1) is above slice[i-1],
\* everything in slice[i..j) is strictly between slice[i-1] and slice[j], and
\* nothing in slice[j+1..] is below slice[j].
C23_Partitioned ==
    pc = "partition_done" =>
        LET i_ret == result[1]
            j_ret == result[2]
        IN  /\ 1 <= i_ret
            /\ i_ret <= j_ret
            /\ j_ret <= Size(slice) - 1
            /\ IsPermutation(slice, input)
            /\ is_le(compare(slice[i_ret - 1], slice[j_ret]))
            /\ \A x \in 0 .. i_ret - 2 :
                  is_le(compare(slice[x], slice[i_ret - 1]))
            /\ \A x \in i_ret .. j_ret - 1 :
                  /\ is_lt(compare(slice[i_ret - 1], slice[x]))
                  /\ is_lt(compare(slice[x], slice[j_ret]))
            /\ \A x \in j_ret + 1 .. Size(slice) - 1 :
                  is_ge(compare(slice[x], slice[j_ret]))

C23_Witness ==
    /\ pc = "partition_done"
    /\ Size(slice) = MaxLen
    /\ result = <<2, 3>>
    /\ slice # input
    /\ compare(slice[0], slice[1]) = "Equal"
    /\ compare(slice[3], slice[4]) = "Equal"

\* C24: keep_run_stack_invariant merges only while the top three runs
\* A (top), B, C break the size conditions; it merges B with A if |C| > |A|
\* and leaves C, (B.start, A.end) on top, and otherwise merges C with B and
\* leaves (C.start, B.end), A on top.  Every merge is of two adjacent runs.
C24_MergeRule ==
    [][LET n == Len(run_stack)
           A == run_stack[n]
           B == run_stack[n - 1]
           C == run_stack[n - 2]
       IN  /\ pc = "keep" /\ pc' = "merge_trim" =>
                 /\ n >= 3
                 /\ ~TopThreeOk(run_stack)
                 /\ popped' = <<A, B, C>>
                 /\ merge_args' = IF RunLen(C) > RunLen(A) THEN <<B, A>>
                                  ELSE <<C, B>>
                 /\ run_stack' = SubSeq(run_stack, 1, n - 3)
           /\ pc = "keep_ret" =>
                 run_stack' = run_stack \o
                    (IF RunLen(popped[3]) > RunLen(popped[1])
                     THEN <<popped[3], <<popped[2][1], popped[1][2]>>>>
                     ELSE <<<<popped[3][1], popped[2][2]>>, popped[1]>>)
           /\ pc' = "merge_trim" =>
                 /\ merge_args'[1][2] = merge_args'[2][1]
                 /\ merge_args'[1][1] < merge_args'[1][2]
                 /\ merge_args'[2][1] < merge_args'[2][2]
      ]_vars

C24_Witness ==
    /\ pc = "keep"
    /\ Len(popped) = 3
    /\ RunLen(popped[3]) > RunLen(popped[1])
    /\ Len(run_stack) >= 3
    /\ run_stack[Len(run_stack)] = <<popped[2][1], popped[1][2]>>
    /\ run_stack[Len(run_stack) - 1] = popped[3]
    /\ ~TopThreeOk(run_stack)

\* How many runs the `for` loop of tim_sort_by has pushed.
PushedRuns ==
    IF pc = "push" THEN run_idx - 1
    ELSE IF pc = "keep" THEN run_idx
    ELSE Len(runs)

\* The entries of rs, bottom to top, are non-empty ranges, each starting
\* where the one below it ends, from 0 to last_end, and each sorted in s.
StackStructure(rs, s, last_end) ==
    /\ rs # <<>>
    /\ rs[1][1] = 0
    /\ rs[Len(rs)][2] = last_end
    /\ \A q \in 1 .. Len(rs) :
          /\ rs[q][1] < rs[q][2]
          /\ Sorted(s, rs[q][1], rs[q][2])
    /\ \A q \in 1 .. Len(rs) - 1 : rs[q + 1][1] = rs[q][2]

\* C25: wherever tim_sort_by is between two merges (before a push, at the
\* loop test of keep_run_stack_invariant, at the test of the final loop), the
\* run stack is a chain of non-empty sorted ranges from 0 to the end of the
\* last pushed run.
C25_StackStructure ==
    pc \in {"push", "keep", "collapse"} =>
        IF PushedRuns = 0 THEN run_stack = <<>>
        ELSE StackStructure(run_stack, slice, runs[PushedRuns][2])

C25_Witness ==
    /\ pc = "keep"
    /\ Len(popped) = 3
    /\ Len(run_stack) = 2
    /\ run_idx < Len(runs)
    /\ slice # input
    /\ StackStructure(run_stack, slice, runs[run_idx][2])

\* C26: each turn of the final loop pops the top run and merges it with the
\* run below it, which then ends where the popped run ended; the loop
\* leaves one entry, (0, n).
C26_Collapse ==
    [][LET n == Len(run_stack)
       IN  /\ pc = "collapse" /\ pc' = "merge_trim" =>
                 /\ n > 1
                 /\ cur_run' = run_stack[n]
                 /\ run_stack' = SubSeq(run_stack, 1, n - 1)
                 /\ merge_args' = <<run_stack[n - 1], run_stack[n]>>
           /\ pc = "collapse_ret" =>
                 /\ Len(run_stack') = n
                 /\ run_stack'[n] = <<run_stack[n][1], cur_run[2]>>
           /\ pc = "collapse" /\ pc' = "done" /\ Len(runs) >= 1 =>
                 run_stack = <<<<0, Size(slice)>>>>
      ]_vars

C26_Witness ==
    /\ pc = "done"
    /\ Len(runs) >= 3
    /\ cur_run[1] > 0
    /\ cur_run[2] = Size(slice)
    /\ run_stack = <<<<0, Size(slice)>>>>

WholeStackOk(rs) ==
    \A z \in 1 .. Len(rs) - 2 :
        /\ RunLen(rs[z + 2]) < RunLen(rs[z + 1])
        /\ RunLen(rs[z + 2]) + RunLen(rs[z + 1]) < RunLen(rs[z])

\* C28: after every keep_run_stack_invariant call, every three consecutive
\* entries Z, Y, X (X on top) of the run stack have |X| < |Y| and
\* |X| + |Y| < |Z|.
C28_WholeStack ==
    KeepReturned => WholeStackOk(run_stack)

\* C28, as it holds: after every keep_run_stack_invariant call on a stack of
\* three entries or more, the lengths decrease strictly from the bottom to
\* the top of the whole stack, and the top three entries A, B, C have
\* |A| + |B| < |C|.
C28_DecreasingStack ==
    KeepReturned /\ Len(run_stack) >= 3 =>
        /\ \A z \in 1 .. Len(run_stack) - 1 :
              RunLen(run_stack[z + 1]) < RunLen(run_stack[z])
        /\ RunLen(run_stack[Len(run_stack)])
              + RunLen(run_stack[Len(run_stack) - 1])
              < RunLen(run_stack[Len(run_stack) - 2])

C28_Witness ==
    /\ KeepReturned
    /\ Len(run_stack) = 4
    /\ Len(popped) = 3
    /\ ~WholeStackOk(run_stack)
    /\ TopThreeOk(run_stack)

\* C29: get_sorted_run_from_slice leaves every element below run_start_pos
\* and every element at or above the returned run_end_pos where it was.
C29_RunFrame ==
    pc = "done" =>
        \A x \in DOMAIN slice :
            (x < g_start \/ x >= result) => slice[x] = input[x]

C29_Witness ==
    /\ pc = "done"
    /\ ~is_run_increase
    /\ g_start > 0
    /\ result < Size(slice)
    /\ result > g_start + g_min
    /\ \A x \in g_start .. result - 1 : slice[x] # input[x]


====
